---- MODULE Spec2Model ----
(***************************************************************************)
(* A model of aws-tree.py: main() collects the resources of an AWS         *)
(* account, folds them into one nested tree (dicts, lists, scalars),       *)
(* prunes it with clean_tree and renders it with generate_html_tree or     *)
(* generate_ascii_tree.                                                    *)
(*                                                                         *)
(* Python values are modelled as tagged nodes:                             *)
(*   dict   [t |-> "dict", kv |-> <<[k |-> key, n |-> node], ...>>]        *)
(*          (insertion ordered, keys unique)                               *)
(*   list   [t |-> "list", items |-> <<node, ...>>]                        *)
(*   scalar [t |-> "str" | "bool" | "int", v |-> str(value)]               *)
(***************************************************************************)
EXTENDS Integers, Sequences, FiniteSets, TLC

VARIABLES
    aws,                \* the account as the provider reports it (input)
    args,               \* the parsed command line, <<>> until main reads it
    vpcs, s3_buckets, lambda_functions, app_gateways, api_gateways,
    ec2_instances,      \* locals of main set at lines 244-249
    tree,               \* the tree main builds (a dict node)
    built,              \* the tree as it was when clean_tree was called
    first,              \* the tree after the first of two clean_tree calls
    output_content,     \* what the chosen renderer returned
    output_file,        \* the file main wrote: [name, content], <<>> before
    failed,             \* which provider call raised, "none" if none did
    pc                  \* main's position

\* the locals main fills from the list calls
collected == <<vpcs, s3_buckets, lambda_functions, app_gateways, api_gateways,
               ec2_instances>>

vars == <<aws, args, collected, tree, built, first, output_content, output_file,
          failed, pc>>

-----------------------------------------------------------------------------
(* Bounds of the model *)

\* at most this many resources (of all kinds together) in the account
MaxResources == 2
\* generic trees for clean_tree: nesting depth below the root dict
MaxDepth == 2
\* generic trees for clean_tree: longest list
MaxListLen == 1

-----------------------------------------------------------------------------
(* Python values *)

Null == "None"

Str(s) == [t |-> "str", v |-> s]

Bool(b) == [t |-> "bool", v |-> IF b THEN "True" ELSE "False"]

IntV(s) == [t |-> "int", v |-> s]

Dict(kv) == [t |-> "dict", kv |-> kv]

List(items) == [t |-> "list", items |-> items]

E(key, node) == [k |-> key, n |-> node]

IsDict(node) == node.t = "dict"

IsList(node) == node.t = "list"

IsStr(node) == node.t = "str"

\* bool(value): an empty container, "", False are falsy
Truthy(node) ==
    CASE node.t = "dict" -> node.kv # <<>>
      [] node.t = "list" -> node.items # <<>>
      [] node.t = "bool" -> node.v = "True"
      [] OTHER -> node.v # ""

\* key in d
Has(d, key) == \E i \in 1..Len(d.kv) : d.kv[i].k = key

\* d[key] of a plain dict, for a key that is present
Get(d, key) == d.kv[CHOOSE i \in 1..Len(d.kv) : d.kv[i].k = key].n

\* d[key] = node: replaces in place, or appends a new key at the end
Set(d, key, node) ==
    IF Has(d, key)
    THEN Dict([i \in 1..Len(d.kv) |->
                 IF d.kv[i].k = key THEN E(key, node) ELSE d.kv[i]])
    ELSE Dict(Append(d.kv, E(key, node)))

\* l.append(node)
ListAppend(l, node) == List(Append(l.items, node))

-----------------------------------------------------------------------------
(* The account: what the provider's list and describe calls return *)

Region == "us-east-1"

VpcIds == {"vpc-1", "vpc-2"}

\* Tags as describe_tags returns them
TagLists == {<<>>, <<[Key |-> "env", Value |-> "prod"]>>}

\* an event source mapping; the ARN is kept in its ':' separated parts
Mappings ==
    {[UUID |-> "uuid-1", service |-> "sqs", region |-> Region, name |-> "jobs"]}

LambdaRecords ==
    [kind : {"lambda"}, FunctionName : {"fn-a", "fn-b"},
     VpcId : {"vpc-1", Null}, Runtime : {"nodejs20.x", "python3.8"},
     EventSourceMappings : {<<>>} \cup {<<m>> : m \in Mappings}]

AppGatewayRecords ==
    [kind : {"elbv2"}, LoadBalancerName : {"lb-a"}, VpcId : VpcIds \cup {Null},
     Tags : TagLists]

ApiGatewayRecords == [kind : {"apigateway"}, id : {"api-1"}, name : {"orders"}]

Ec2Records ==
    [kind : {"ec2"}, InstanceId : {"i-1"}, VpcId : VpcIds, Tags : TagLists]

\* PublicAcl: the ACL grants AllUsers; PolicyHasHttp: a bucket policy exists and
\* its text contains 'http'; Encrypted: get_bucket_encryption succeeds
S3Records ==
    [kind : {"s3"}, Name : {"bkt-a"}, KeyCount : {"3"}, PublicAcl : BOOLEAN,
     PolicyHasHttp : BOOLEAN, Encrypted : BOOLEAN]

SnsRecords == [kind : {"sns"}, TopicArn : {"arn:aws:sns:t1"}, HasKmsKey : BOOLEAN]

SqsRecords == [kind : {"sqs"}, QueueUrl : {"https://sqs/q1"}]

KinesisRecords == [kind : {"kinesis"}, StreamName : {"s1"}]

DynamoRecords == [kind : {"dynamodb"}, TableName : {"t1"}]

ResourceRecords ==
    LambdaRecords \cup AppGatewayRecords \cup ApiGatewayRecords \cup Ec2Records
    \cup S3Records \cup SnsRecords \cup SqsRecords \cup KinesisRecords
    \cup DynamoRecords

\* the VPCs of the account, each id at most once
VpcLists ==
    {<<>>}
    \cup {<<[VpcId |-> "vpc-1", Tags |-> t]>> : t \in TagLists}
    \cup {<<[VpcId |-> "vpc-1", Tags |-> t], [VpcId |-> "vpc-2", Tags |-> u]>> :
            t \in TagLists, u \in TagLists}

\* the order in which main lists the kinds
KindOrder ==
    <<"s3", "lambda", "elbv2", "apigateway", "ec2", "sns", "sqs", "kinesis",
      "dynamodb">>

KindRank(kind) == CHOOSE i \in 1..Len(KindOrder) : KindOrder[i] = kind

\* each list call returns the records of one kind, so the account keeps its
\* resources grouped by kind: the order between kinds carries nothing
GroupedByKind(resources) ==
    \A i \in 1..Len(resources) : \A j \in (i + 1)..Len(resources) :
        KindRank(resources[i].kind) <= KindRank(resources[j].kind)

ResourceLists ==
    {l \in UNION {[1..n -> ResourceRecords] : n \in 0..MaxResources} :
        GroupedByKind(l)}

Accounts == [vpcs : VpcLists, resources : ResourceLists]

OfKind(resources, kind) == SelectSeq(resources, LAMBDA r : r.kind = kind)

-----------------------------------------------------------------------------
(* Collectors and enrichers *)

get_vpcs(a) == a.vpcs

get_s3_buckets(a) == OfKind(a.resources, "s3")

get_lambda_functions(a) == OfKind(a.resources, "lambda")

get_app_gateways(a) == OfKind(a.resources, "elbv2")

get_api_gateways(a) == OfKind(a.resources, "apigateway")

get_ec2_instances(a) == OfKind(a.resources, "ec2")

EventSourceArn(m) ==
    "arn:aws:" \o m.service \o ":" \o m.region \o ":123456789012:" \o m.name

trigger_info(m) ==
    LET base == Dict(<<E("UUID", Str(m.UUID)),
                       E("EventSourceArn", Str(EventSourceArn(m)))>>)
    IN  CASE m.service = "sqs" ->
               Set(base, "URL", Str("https://" \o m.region
                   \o ".console.aws.amazon.com/sqs/v2/home?region=" \o m.region
                   \o "#/queues/https%3A%2F%2Fsqs." \o m.region
                   \o ".amazonaws.com%2F" \o m.name))
          [] m.service = "dynamodb" ->
               Set(base, "URL", Str("https://" \o m.region
                   \o ".console.aws.amazon.com/dynamodb/home?region=" \o m.region
                   \o "#tables:selected=" \o m.name))
          [] m.service = "kinesis" ->
               Set(base, "URL", Str("https://" \o m.region
                   \o ".console.aws.amazon.com/kinesis/home?region=" \o m.region
                   \o "#/streams/details/" \o m.name \o "/details"))
          [] OTHER -> base

get_lambda_triggers(function) ==
    LET triggers == [i \in 1..Len(function.EventSourceMappings) |->
                        trigger_info(function.EventSourceMappings[i])]
    IN  IF triggers # <<>> THEN List(triggers) ELSE List(<<Str("None")>>)

\* (object_count, public_access, http_access, encryption_enabled)
get_s3_bucket_info(bucket) ==
    [object_count |-> bucket.KeyCount, public_access |-> bucket.PublicAcl,
     http_access |-> bucket.PolicyHasHttp, encryption_enabled |-> bucket.Encrypted]

get_sns_encryption(topic) == topic.HasKmsKey

\* {tag['Key']: tag['Value'] for tag in taglist}
RECURSIVE TagDict(_)
TagDict(taglist) ==
    IF taglist = <<>> THEN Dict(<<>>)
    ELSE LET tag == taglist[Len(taglist)]
         IN  Set(TagDict(SubSeq(taglist, 1, Len(taglist) - 1)),
                 tag.Key, Str(tag.Value))

get_tags(resource, resource_type) ==
    IF resource_type \in {"ec2", "elbv2", "vpc"}
    THEN TagDict(resource.Tags)
    ELSE Dict(<<>>)

-----------------------------------------------------------------------------
(* clean_tree *)

IsEmptyContainer(value) ==
    \/ IsList(value) /\ value.items = <<>>
    \/ IsDict(value) /\ value.kv = <<>>

\* clean_tree testing a dict for emptiness before it cleans it, not after
RECURSIVE clean_tree_topdown(_)
clean_tree_topdown(t) ==
    LET kept == SelectSeq(t.kv, LAMBDA e : ~IsEmptyContainer(e.n))
    IN  Dict([i \in 1..Len(kept) |->
                IF IsDict(kept[i].n)
                THEN E(kept[i].k, clean_tree_topdown(kept[i].n))
                ELSE kept[i]])

\* the dict `tree` after clean_tree(tree) has mutated it
RECURSIVE clean_tree(_)
clean_tree(t) ==
    LET cleaned == [i \in 1..Len(t.kv) |->
                      IF IsDict(t.kv[i].n)
                      THEN E(t.kv[i].k, clean_tree(t.kv[i].n))
                      ELSE t.kv[i]]
    IN  Dict(SelectSeq(cleaned, LAMBDA e : ~IsEmptyContainer(e.n)))

-----------------------------------------------------------------------------
(* Building the tree: the loops of main *)

\* what the defaultdict's factory makes for a missing key
DefaultNode ==
    Dict(<<E("Tags", Dict(<<>>)), E("Lambda Functions", List(<<>>)),
           E("App Gateways", List(<<>>)), E("API Gateways", List(<<>>)),
           E("EC2 Instances", List(<<>>))>>)

\* tree[key] on the defaultdict: a missing key is created first
Vivify(t, key) == IF Has(t, key) THEN t ELSE Set(t, key, DefaultNode)

\* AppendUnder when every VPC's node shares one list per bucket: the append
\* shows under every VPC
AppendUnderShared(t, vpc, bucket, entry) ==
    Dict([i \in 1..Len(t.kv) |->
            IF IsDict(t.kv[i].n) /\ Has(t.kv[i].n, bucket)
            THEN E(t.kv[i].k,
                   Set(t.kv[i].n, bucket,
                       ListAppend(Get(t.kv[i].n, bucket), entry)))
            ELSE t.kv[i]])

\* tree[vpc][bucket].append(entry)
AppendUnder(t, vpc, bucket, entry) ==
    LET node == Get(t, vpc)
    IN  Set(t, vpc, Set(node, bucket, ListAppend(Get(node, bucket), entry)))

\* if key not in tree: tree[key] = []; tree[key].append(entry)
AppendRoot(t, key, entry) ==
    LET t1 == IF ~Has(t, key) THEN Set(t, key, List(<<>>)) ELSE t
    IN  Set(t1, key, ListAppend(Get(t1, key), entry))

\* vpc and vpc in tree
Resolves(t, vpc) == vpc # Null /\ vpc # "" /\ Has(t, vpc)

\* AddVpc without the assignment of the URL
AddVpcNoUrl(t, vpc) ==
    LET t1 == Vivify(t, vpc.VpcId)
    IN  Set(t1, vpc.VpcId, Set(Get(t1, vpc.VpcId), "Tags", get_tags(vpc, "vpc")))

\* body of the loop over vpcs
AddVpc(t, vpc) ==
    LET vpc_id == vpc.VpcId
        tags == get_tags(vpc, "vpc")
        vpc_url == "https://console.aws.amazon.com/vpc/home?region=" \o Region
                   \o "#vpcs:VpcId=" \o vpc_id
        t1 == Vivify(t, vpc_id)
        t2 == Set(t1, vpc_id, Set(Get(t1, vpc_id), "Tags", tags))
    IN  Set(t2, vpc_id, Set(Get(t2, vpc_id), "URL", Str(vpc_url)))

function_is_red(function) == function.Runtime # "nodejs20.x"

function_info(function) ==
    Dict(<<E("Runtime", Str(function.Runtime)),
           E("Triggers", get_lambda_triggers(function)),
           E("URL", Str("https://console.aws.amazon.com/lambda/home?region="
                        \o Region \o "#/functions/" \o function.FunctionName)),
           E("is_red", Bool(function_is_red(function)))>>)

\* body of the loop over lambda_functions
AddLambda(t, function) ==
    LET function_vpc == function.VpcId
    IN  IF Resolves(t, function_vpc)
        THEN AppendUnder(t, function_vpc, "Lambda Functions",
                 Dict(<<E(function.FunctionName, function_info(function))>>))
        ELSE t

gateway_entry(gateway) ==
    Set(Dict(<<E(gateway.LoadBalancerName, get_tags(gateway, "elbv2"))>>), "URL",
        Str("https://console.aws.amazon.com/ec2/v2/home?region=" \o Region
            \o "#LoadBalancers:LoadBalancerName=" \o gateway.LoadBalancerName))

\* body of the loop over app_gateways
AddAppGateway(t, gateway) ==
    LET gateway_vpc == gateway.VpcId
    IN  IF Resolves(t, gateway_vpc)
        THEN AppendUnder(t, gateway_vpc, "App Gateways", gateway_entry(gateway))
        ELSE t

\* body of the loop over api_gateways
AddApiGateway(t, api_gateway) ==
    AppendRoot(t, "API Gateways",
        Dict(<<E(api_gateway.name,
                 Dict(<<E("ID", Str(api_gateway.id)),
                        E("URL", Str("https://console.aws.amazon.com/apigateway/home?region="
                                     \o Region \o "#/apis/" \o api_gateway.id
                                     \o "/resources"))>>))>>))

instance_entry(instance) ==
    Set(Dict(<<E(instance.InstanceId, get_tags(instance, "ec2"))>>), "URL",
        Str("https://console.aws.amazon.com/ec2/v2/home?region=" \o Region
            \o "#Instances:instanceId=" \o instance.InstanceId))

\* body of the loop over ec2_instances
AddInstance(t, instance) ==
    LET instance_vpc == instance.VpcId
    IN  IF Resolves(t, instance_vpc)
        THEN AppendUnder(t, instance_vpc, "EC2 Instances", instance_entry(instance))
        ELSE t

bucket_is_red(info) == ~info.encryption_enabled \/ info.http_access

bucket_info(bucket) ==
    LET info == get_s3_bucket_info(bucket)
        base == Dict(<<E("URL", Str("https://s3.console.aws.amazon.com/s3/buckets/"
                                    \o bucket.Name)),
                       E("Object Count", IntV(info.object_count)),
                       E("Public Access", Bool(info.public_access)),
                       E("HTTP Access", Bool(info.http_access)),
                       E("Encryption Enabled", Bool(info.encryption_enabled))>>)
    IN  IF bucket_is_red(info) THEN Set(base, "is_red", Bool(TRUE)) ELSE base

\* body of the loop over s3_buckets
AddBucket(t, bucket) ==
    AppendRoot(t, "S3 Buckets", Dict(<<E(bucket.Name, bucket_info(bucket))>>))

topic_info(topic) ==
    LET encryption_enabled == get_sns_encryption(topic)
        base == Dict(<<E("URL", Str("https://" \o Region
                            \o ".console.aws.amazon.com/sns/v3/home?region="
                            \o Region \o "#/topic/" \o topic.TopicArn)),
                       E("Encryption Enabled", Bool(encryption_enabled))>>)
    IN  IF ~encryption_enabled THEN Set(base, "is_red", Bool(TRUE)) ELSE base

\* tree[key] = [] followed by the appends of the loop
SetList(t, key, entries) == Set(t, key, List(entries))

\* the body of the loop over vpcs, lambda_functions, ... applied to one record
LoopBody(loop, t, record) ==
    CASE loop = "vpcs" -> AddVpc(t, record)
      [] loop = "lambda_functions" -> AddLambda(t, record)
      [] loop = "app_gateways" -> AddAppGateway(t, record)
      [] loop = "api_gateways" -> AddApiGateway(t, record)
      [] loop = "ec2_instances" -> AddInstance(t, record)
      [] loop = "s3_buckets" -> AddBucket(t, record)

\* for record in records: the loop's body
RECURSIVE ForEach(_, _, _)
ForEach(loop, t, records) ==
    IF records = <<>> THEN t
    ELSE ForEach(loop, LoopBody(loop, t, Head(records)), Tail(records))

topic_entry(topic) == Dict(<<E(topic.TopicArn, topic_info(topic))>>)

queue_entry(queue) ==
    Dict(<<E(queue.QueueUrl, Dict(<<E("URL", Str(queue.QueueUrl))>>))>>)

stream_entry(stream) ==
    Dict(<<E(stream.StreamName,
             Dict(<<E("URL", Str("https://" \o Region
                     \o ".console.aws.amazon.com/kinesis/home?region=" \o Region
                     \o "#/streams/details/" \o stream.StreamName \o "/details"))>>))>>)

table_entry(table) ==
    Dict(<<E(table.TableName,
             Dict(<<E("URL", Str("https://" \o Region
                     \o ".console.aws.amazon.com/dynamodb/home?region=" \o Region
                     \o "#tables:selected=" \o table.TableName))>>))>>)

-----------------------------------------------------------------------------
(* Renderers.  The output is kept as the sequence of the pieces appended to *)
(* it, one record per piece, instead of one concatenated string.            *)

RED == "\\033[91m"

RESET == "\\033[0m"

\* str(value)
PyStr(node) ==
    CASE IsDict(node) -> "{...}"
      [] IsList(node) -> "[...]"
      [] OTHER -> node.v

\* value.get('is_red', False)
GetIsRed(value) == IF Has(value, "is_red") THEN Get(value, "is_red") ELSE Bool(FALSE)

\* the pieces of a sequence of sequences, in order
RECURSIVE Concat(_)
Concat(seqs) == IF seqs = <<>> THEN <<>> ELSE Head(seqs) \o Concat(Tail(seqs))

HtmlPiece(el, cls, key, value) == [el |-> el, cls |-> cls, key |-> key, value |-> value]

\* what generate_html_node(node) appends to html
RECURSIVE generate_html_node(_)
generate_html_node(node) ==
    IF IsDict(node)
    THEN Concat([i \in 1..Len(node.kv) |->
           LET key == node.kv[i].k
               value == node.kv[i].n
           IN  CASE key = "URL" /\ IsStr(value) ->
                      <<HtmlPiece("a", "", key, value.v)>>
                 [] ~(key = "URL" /\ IsStr(value)) /\ IsDict(value) ->
                      LET is_red == GetIsRed(value)
                          class_name == IF Truthy(is_red) THEN "red" ELSE ""
                      IN  <<HtmlPiece("parent", class_name, key, "")>>
                          \o generate_html_node(value)
                          \o <<HtmlPiece("end", "", "", "")>>
                 [] IsList(value) ->
                      <<HtmlPiece("parent", "", key, "")>>
                      \o Concat([j \in 1..Len(value.items) |->
                                    generate_html_node(value.items[j])])
                      \o <<HtmlPiece("end", "", "", "")>>
                 [] OTHER ->
                      IF key # "is_red"
                      THEN LET class_name == IF key = "is_red" /\ Truthy(value)
                                             THEN "red" ELSE ""
                           IN  <<HtmlPiece("li", class_name, key, PyStr(value))>>
                      ELSE <<>>])
    ELSE <<HtmlPiece("item", "", "", PyStr(node))>>

generate_html_tree(t) ==
    <<HtmlPiece("head", "", "", "")>> \o generate_html_node(t)
    \o <<HtmlPiece("tail", "", "", "")>>

AsciiLine(level, el, color, key, value, reset) ==
    [level |-> level, el |-> el, color |-> color, key |-> key, value |-> value,
     reset |-> reset]

\* what traverse(node, level) appends to ascii_tree, one record per line
RECURSIVE traverse(_, _)
traverse(node, level) ==
    IF IsDict(node)
    THEN Concat([i \in 1..Len(node.kv) |->
           LET key == node.kv[i].k
               value == node.kv[i].n
               color == IF key = "is_red" /\ Truthy(value) THEN RED ELSE ""
               reset == IF color # "" THEN RESET ELSE ""
           IN  CASE key = "Triggers" /\ value = List(<<Str("None")>>) ->
                      <<AsciiLine(level, "parent", "", key, "", "")>>
                 [] ~(key = "Triggers" /\ value = List(<<Str("None")>>))
                    /\ key = "URL" /\ IsStr(value) ->
                      <<AsciiLine(level, "a", color, key, value.v, reset)>>
                 [] IsDict(value) ->
                      <<AsciiLine(level, "parent", color, key, "", reset)>>
                      \o traverse(value, level + 1)
                 [] ~(key = "Triggers" /\ value = List(<<Str("None")>>))
                    /\ IsList(value) ->
                      <<AsciiLine(level, "parent", "", key, "", "")>>
                      \o Concat([j \in 1..Len(value.items) |->
                                    traverse(value.items[j], level + 1)])
                 [] OTHER ->
                      IF key # "is_red"
                      THEN <<AsciiLine(level, "li", color, key, PyStr(value), reset)>>
                      ELSE <<>>])
    ELSE <<AsciiLine(level, "item", "", "", PyStr(node), "")>>

generate_ascii_tree(t) == traverse(t, 0)

output_filename(a, file_extension) ==
    IF a.output # Null THEN a.output
    ELSE IF a.profile # Null THEN a.profile \o "." \o file_extension
    ELSE "output." \o file_extension

-----------------------------------------------------------------------------
(* main *)

EmptyTree == Dict(<<>>)

ArgsSet == [format : {"html", "ascii"}, output : {Null}, profile : {Null}]

\* the list calls main makes before it builds anything (lines 244-249)
FirstCalls ==
    {"describe_vpcs", "list_buckets", "list_functions", "describe_load_balancers",
     "get_rest_apis", "describe_instances"}

Init ==
    /\ aws = [vpcs |-> <<>>, resources |-> <<>>]
    /\ args = <<>>
    /\ vpcs = <<>> /\ s3_buckets = <<>> /\ lambda_functions = <<>>
    /\ app_gateways = <<>> /\ api_gateways = <<>> /\ ec2_instances = <<>>
    /\ tree = EmptyTree /\ built = EmptyTree /\ first = EmptyTree
    /\ output_content = <<>>
    /\ output_file = <<>>
    /\ failed = "none"
    /\ pc = "start"

\* boto3 finds no valid credentials: the first call raises
AuthFails ==
    /\ pc = "start"
    /\ failed' = "auth"
    /\ pc' = "aborted"
    /\ UNCHANGED <<aws, args, collected, tree, built, first, output_content,
                   output_file>>

\* one of the list calls raises (access denied, throttling): nothing catches it
CollectFails ==
    /\ pc = "start"
    /\ \E call \in FirstCalls : failed' = call
    /\ pc' = "aborted"
    /\ UNCHANGED <<aws, args, collected, tree, built, first, output_content,
                   output_file>>

\* lines 244-251: the six list calls return, the defaultdict is created
Collect ==
    /\ pc = "start"
    /\ \E a \in Accounts :
         /\ aws' = a
         /\ vpcs' = get_vpcs(a)
         /\ s3_buckets' = get_s3_buckets(a)
         /\ lambda_functions' = get_lambda_functions(a)
         /\ app_gateways' = get_app_gateways(a)
         /\ api_gateways' = get_api_gateways(a)
         /\ ec2_instances' = get_ec2_instances(a)
    /\ tree' = EmptyTree
    /\ pc' = "collected"
    /\ UNCHANGED <<args, built, first, output_content, output_file, failed>>

Step(from, to, t) ==
    /\ pc = from
    /\ tree' = t
    /\ pc' = to
    /\ UNCHANGED <<aws, args, collected, built, first, output_content,
                   output_file, failed>>

\* lines 259-264
FetchVpcs == Step("collected", "vpcs", ForEach("vpcs", tree, vpcs))

\* lines 266-278
FetchLambdaFunctions ==
    Step("vpcs", "lambda", ForEach("lambda_functions", tree, lambda_functions))

\* lines 280-286
FetchAppGateways ==
    Step("lambda", "appgw", ForEach("app_gateways", tree, app_gateways))

\* lines 288-294
FetchApiGateways ==
    Step("appgw", "apigw", ForEach("api_gateways", tree, api_gateways))

\* lines 296-302
FetchEC2Instances ==
    Step("apigw", "ec2", ForEach("ec2_instances", tree, ec2_instances))

\* lines 304-320
FetchS3Buckets == Step("ec2", "s3", ForEach("s3_buckets", tree, s3_buckets))

\* lines 322-334
FetchSNSTopics ==
    LET sns_topics == OfKind(aws.resources, "sns")
    IN  Step("s3", "sns",
             SetList(tree, "SNS", [i \in 1..Len(sns_topics) |->
                         topic_entry(sns_topics[i])]))

\* lines 336-339
FetchSQSQueues ==
    LET sqs_queues == OfKind(aws.resources, "sqs")
    IN  Step("sns", "sqs",
             SetList(tree, "SQS", [i \in 1..Len(sqs_queues) |->
                         queue_entry(sqs_queues[i])]))

\* lines 341-345
FetchKinesisStreams ==
    LET kinesis_streams == OfKind(aws.resources, "kinesis")
    IN  Step("sqs", "kinesis",
             SetList(tree, "Kinesis", [i \in 1..Len(kinesis_streams) |->
                         stream_entry(kinesis_streams[i])]))

\* lines 347-351
FetchDynamoDBTables ==
    LET dynamodb_tables == OfKind(aws.resources, "dynamodb")
    IN  Step("kinesis", "built",
             SetList(tree, "DynamoDB", [i \in 1..Len(dynamodb_tables) |->
                         table_entry(dynamodb_tables[i])]))

\* the list call a later step starts with
LaterCall(p) ==
    CASE p = "s3" -> "list_topics"
      [] p = "sns" -> "list_queues"
      [] p = "sqs" -> "list_streams"
      [] p = "kinesis" -> "list_tables"

\* list_topics, list_queues, list_streams or list_tables raises
ListFails ==
    /\ pc \in {"s3", "sns", "sqs", "kinesis"}
    /\ failed' = LaterCall(pc)
    /\ pc' = "aborted"
    /\ UNCHANGED <<aws, args, collected, tree, built, first, output_content,
                   output_file>>

\* line 353
Clean ==
    /\ pc = "built"
    /\ built' = tree
    /\ tree' = clean_tree(tree)
    /\ pc' = "cleaned"
    /\ UNCHANGED <<aws, args, collected, first, output_content, output_file,
                   failed>>

\* lines 355-360; the command line is fixed before main starts, and this is
\* the first place where main's result depends on it, so it is drawn here
Render ==
    /\ pc = "cleaned"
    /\ \E a \in ArgsSet :
         /\ args' = a
         /\ output_content' = IF a.format = "html"
                              THEN generate_html_tree(tree)
                              ELSE generate_ascii_tree(tree)
    /\ pc' = "rendered"
    /\ UNCHANGED <<aws, collected, tree, built, first, output_file, failed>>

\* lines 362-371
Write ==
    /\ pc = "rendered"
    /\ LET file_extension == IF args.format = "html" THEN "html" ELSE "txt"
       IN  output_file' = [name |-> output_filename(args, file_extension),
                           content |-> output_content]
    /\ pc' = "done"
    /\ UNCHANGED <<aws, args, collected, tree, built, first, output_content,
                   failed>>

\* the process's exit status: an uncaught exception ends it with 1
ExitCode == CASE pc = "done" -> "0" [] pc = "aborted" -> "1" [] OTHER -> "running"

Next ==
    \/ AuthFails
    \/ CollectFails
    \/ Collect
    \/ FetchVpcs
    \/ FetchLambdaFunctions
    \/ FetchAppGateways
    \/ FetchApiGateways
    \/ FetchEC2Instances
    \/ FetchS3Buckets
    \/ FetchSNSTopics
    \/ FetchSQSQueues
    \/ FetchKinesisStreams
    \/ FetchDynamoDBTables
    \/ ListFails
    \/ Clean
    \/ Render
    \/ Write

Spec == Init /\ [][Next]_vars

-----------------------------------------------------------------------------
(* clean_tree on its own, applied twice to any tree of bounded size *)

KeyOrder == <<"a", "b">>

Scalars == {Str("x")}

Absent == [t |-> "absent"]

\* the dict that holds KeyOrder[i] : f[i] for the i whose f[i] is not Absent
DictOf(f) ==
    Dict(SelectSeq([i \in 1..Len(KeyOrder) |-> E(KeyOrder[i], f[i])],
                   LAMBDA e : e.n # Absent))

\* the choices of a value, or of none, for each key of KeyOrder
Choices(S) == [1..Len(KeyOrder) -> S \cup {Absent}]

\* every dict with keys among KeyOrder and values in S
DictsOver(S) == {DictOf(f) : f \in Choices(S)}

\* every list of at most MaxListLen elements of S
ListsOver(S) == {List(l) : l \in UNION {[1..n -> S] : n \in 0..MaxListLen}}

\* every value nested at most d deep
RECURSIVE GenNodes(_)
GenNodes(d) ==
    IF d = 0
    THEN Scalars \cup {Dict(<<>>), List(<<>>)}
    ELSE LET S == GenNodes(d - 1)
         IN  Scalars \cup DictsOver(S) \cup ListsOver(S)

InitClean ==
    /\ \E f \in Choices(GenNodes(MaxDepth - 1)) : tree = DictOf(f)
    /\ aws = [vpcs |-> <<>>, resources |-> <<>>]
    /\ args = <<>>
    /\ vpcs = <<>> /\ s3_buckets = <<>> /\ lambda_functions = <<>>
    /\ app_gateways = <<>> /\ api_gateways = <<>> /\ ec2_instances = <<>>
    /\ built = EmptyTree /\ first = EmptyTree
    /\ output_content = <<>>
    /\ output_file = <<>>
    /\ failed = "none"
    /\ pc = "given"

\* clean_tree(tree)
CleanOnce ==
    /\ pc = "given"
    /\ tree' = clean_tree(tree)
    /\ first' = tree'
    /\ pc' = "once"
    /\ UNCHANGED <<aws, args, collected, built, output_content, output_file,
                   failed>>

\* clean_tree(tree) on the tree it has already cleaned
CleanAgain ==
    /\ pc = "once"
    /\ tree' = clean_tree(tree)
    /\ pc' = "twice"
    /\ UNCHANGED <<aws, args, collected, built, first, output_content,
                   output_file, failed>>

NextClean == CleanOnce \/ CleanAgain

SpecClean == InitClean /\ [][NextClean]_vars

-----------------------------------------------------------------------------
(* Vocabulary of the properties *)

\* main has built the whole tree and has not pruned it yet
Built == pc = "built"

\* clean_tree has run on the tree main built
Pruned == pc \in {"cleaned", "rendered", "done"}

KnownVpcIds == {vpcs[i].VpcId : i \in 1..Len(vpcs)}

VpcKinds == {"lambda", "elbv2", "ec2"}

\* the bucket a kind is listed under
BucketOf(kind) ==
    CASE kind = "lambda" -> "Lambda Functions"
      [] kind = "elbv2" -> "App Gateways"
      [] kind = "ec2" -> "EC2 Instances"
      [] kind = "apigateway" -> "API Gateways"
      [] kind = "s3" -> "S3 Buckets"
      [] kind = "sns" -> "SNS"
      [] kind = "sqs" -> "SQS"
      [] kind = "kinesis" -> "Kinesis"
      [] kind = "dynamodb" -> "DynamoDB"

AllKinds ==
    {"lambda", "elbv2", "ec2", "apigateway", "s3", "sns", "sqs", "kinesis",
     "dynamodb"}

\* the name a record is listed by
IdOf(r) ==
    CASE r.kind = "lambda" -> r.FunctionName
      [] r.kind = "elbv2" -> r.LoadBalancerName
      [] r.kind = "ec2" -> r.InstanceId
      [] r.kind = "apigateway" -> r.name
      [] r.kind = "s3" -> r.Name
      [] r.kind = "sns" -> r.TopicArn
      [] r.kind = "sqs" -> r.QueueUrl
      [] r.kind = "kinesis" -> r.StreamName
      [] r.kind = "dynamodb" -> r.TableName

\* the owning network of a record, Null for the kinds that have none
OwnerOf(r) == IF r.kind \in VpcKinds THEN r.VpcId ELSE Null

Ids(records) == [i \in 1..Len(records) |-> IdOf(records[i])]

\* the names of the entries of a list of one-resource dicts
Names(list) == [i \in 1..Len(list.items) |-> list.items[i].kv[1].k]

\* the names listed at root level under a bucket
RootNames(t, bucket) ==
    IF Has(t, bucket) /\ IsList(Get(t, bucket))
    THEN Names(Get(t, bucket)) ELSE <<>>

\* the names listed under a bucket of a VPC's node
VpcNames(t, vpc, bucket) ==
    IF Has(t, vpc) /\ IsDict(Get(t, vpc)) /\ Has(Get(t, vpc), bucket)
    THEN Names(Get(Get(t, vpc), bucket)) ELSE <<>>

\* the collected records of a kind that a VPC owns
OwnedBy(kind, vpc) ==
    SelectSeq(OfKind(aws.resources, kind), LAMBDA r : OwnerOf(r) = vpc)

\* the collected records of a kind whose owner is null or not a known VPC
Unowned(kind) ==
    SelectSeq(OfKind(aws.resources, kind), LAMBDA r : OwnerOf(r) \notin KnownVpcIds)

\* some dict or list strictly below node is empty
RECURSIVE HasEmptyNode(_)
HasEmptyNode(node) ==
    CASE IsDict(node) ->
           \E i \in 1..Len(node.kv) :
               IsEmptyContainer(node.kv[i].n) \/ HasEmptyNode(node.kv[i].n)
      [] IsList(node) ->
           \E i \in 1..Len(node.items) :
               IsEmptyContainer(node.items[i]) \/ HasEmptyNode(node.items[i])
      [] OTHER -> FALSE

\* the labels of the nodes that carry a true is_red, in traversal order
RECURSIVE FlaggedLabels(_)
FlaggedLabels(node) ==
    CASE IsDict(node) ->
           Concat([i \in 1..Len(node.kv) |->
               LET value == node.kv[i].n
               IN  (IF IsDict(value) /\ Truthy(GetIsRed(value))
                    THEN <<node.kv[i].k>> ELSE <<>>)
                   \o FlaggedLabels(value)])
      [] IsList(node) ->
           Concat([i \in 1..Len(node.items) |-> FlaggedLabels(node.items[i])])
      [] OTHER -> <<>>

Keys(pieces) == [i \in 1..Len(pieces) |-> pieces[i].key]

\* the labels generate_html_tree gives the 'red' class
HtmlRedLabels(t) ==
    Keys(SelectSeq(generate_html_tree(t), LAMBDA p : p.cls = "red"))

\* the labels generate_ascii_tree wraps in the red escape and its reset
AsciiRedLabels(t) ==
    Keys(SelectSeq(generate_ascii_tree(t),
                   LAMBDA l : l.color = RED /\ l.reset = RESET))

KeyValues(pieces) == [i \in 1..Len(pieces) |-> <<pieces[i].key, pieces[i].value>>]

LeafElements == {"a", "li", "item"}

\* the leaves a renderer emits: key/value lines, list elements, URL targets
HtmlLeaves(t) ==
    KeyValues(SelectSeq(generate_html_tree(t), LAMBDA p : p.el \in LeafElements))

AsciiLeaves(t) ==
    KeyValues(SelectSeq(generate_ascii_tree(t), LAMBDA l : l.el \in LeafElements))

-----------------------------------------------------------------------------
(* Properties *)

\* C1: after clean_tree has run, no dict node and no list node anywhere in the
\* tree is empty, the dicts that sit inside list elements included.
C1_NoEmptyNodeAfterClean == Pruned => ~HasEmptyNode(tree)

\* C2: every collected resource whose owning network is null or no known VPC
\* is listed exactly once in the root-level bucket of its kind, none is dropped:
\* each root bucket lists exactly the unowned records of its kind.
C2_UnownedListedAtRoot ==
    Built => \A kind \in AllKinds :
                 RootNames(tree, BucketOf(kind)) = Ids(Unowned(kind))

\* C3: the nodes that carry a true risk flag are exactly the nodes whose label
\* generate_html_tree gives the 'red' class, and exactly the nodes whose label
\* generate_ascii_tree wraps in the red escape sequence and its reset.
C3_RiskMarkedByBothRenderers ==
    Pruned => /\ HtmlRedLabels(tree) = FlaggedLabels(tree)
              /\ AsciiRedLabels(tree) = FlaggedLabels(tree)

\* the names of the collected records that a known VPC owns
OwnedIds ==
    {IdOf(aws.resources[i]) : i \in {j \in 1..Len(aws.resources) :
                                        OwnerOf(aws.resources[j]) \in KnownVpcIds}}

\* C4: every collected Lambda function, load balancer or EC2 instance whose
\* VPC id is a known VPC is listed exactly once, under that VPC's bucket for its
\* kind (the bucket lists exactly the records the VPC owns, in order), under no
\* other VPC and in no root-level bucket.
C4_OwnedListedOnceUnderOwner ==
    Built =>
      /\ \A kind \in VpcKinds : \A v \in KnownVpcIds :
             VpcNames(tree, v, BucketOf(kind)) = Ids(OwnedBy(kind, v))
      /\ \A kind \in VpcKinds : ~Has(tree, BucketOf(kind))
      /\ \A kind \in AllKinds :
             LET names == RootNames(tree, BucketOf(kind))
             IN  \A i \in 1..Len(names) : names[i] \notin OwnedIds

\* C4's case: two known VPCs, each owning a resource of a different kind
C4_Witness ==
    /\ Built
    /\ KnownVpcIds = VpcIds
    /\ \E k1 \in VpcKinds, k2 \in VpcKinds :
          /\ k1 # k2
          /\ OwnedBy(k1, "vpc-1") # <<>>
          /\ OwnedBy(k2, "vpc-2") # <<>>

\* the entries of a list that are listed by a name
Named(list, name) == SelectSeq(list.items, LAMBDA e : e.kv[1].k = name)

\* the position of the last record of a sequence that has the id of record i
LastWithId(recs, i) ==
    CHOOSE j \in 1..Len(recs) :
        /\ IdOf(recs[j]) = IdOf(recs[i])
        /\ \A k \in (j + 1)..Len(recs) : IdOf(recs[k]) # IdOf(recs[i])

\* two records of a sequence have the id of record i and differ in an attribute
Collides(recs, i) ==
    \E j \in 1..Len(recs) :
        j # i /\ IdOf(recs[j]) = IdOf(recs[i]) /\ recs[j] # recs[i]

\* C5: when two records have the same (parent, kind, id) but different
\* attributes, the tree holds exactly one entry for that (parent, kind, id),
\* the one made from the record processed last.
C5_LastWriteWins ==
    Built =>
      /\ \A v \in KnownVpcIds :
           LET recs == OwnedBy("lambda", v)
           IN  \A i \in 1..Len(recs) :
                 Collides(recs, i) =>
                   Named(Get(Get(tree, v), "Lambda Functions"), IdOf(recs[i]))
                     = <<Dict(<<E(IdOf(recs[i]),
                                  function_info(recs[LastWithId(recs, i)]))>>)>>
      /\ \A i \in 1..Len(s3_buckets) :
           Collides(s3_buckets, i) =>
             Named(Get(tree, "S3 Buckets"), IdOf(s3_buckets[i]))
               = <<Dict(<<E(IdOf(s3_buckets[i]),
                            bucket_info(s3_buckets[LastWithId(s3_buckets, i)]))>>)>>

\* C6: a failing list call for one resource kind does not abort the run; only
\* an authentication failure is fatal.
C6_OnlyAuthFailureIsFatal == pc = "aborted" => failed = "auth"

\* C7: clean_tree is idempotent: a second application to an already cleaned
\* tree leaves it equal to the result of the first.
C7_CleanTreeIdempotent == pc = "twice" => tree = first

\* C7's case: the second application ran on a once cleaned tree that still
\* holds a nested dict to recurse into and a list whose element is an empty dict
C7_Witness ==
    /\ pc = "twice"
    /\ \E i \in 1..Len(first.kv) : IsDict(first.kv[i].n)
    /\ \E i \in 1..Len(first.kv) :
          IsList(first.kv[i].n) /\ HasEmptyNode(first.kv[i].n)

\* C8: both renderers emit the same leaves (key/value pairs, scalar list
\* elements, URL targets) in the same order.
C8_RenderersEmitSameLeaves == Pruned => HtmlLeaves(tree) = AsciiLeaves(tree)

SupportedRuntimes == {"nodejs20.x"}

\* the entry of one resource carries a true is_red
EntryFlagged(entry) == Truthy(GetIsRed(entry.kv[1].n))

\* C9: a bucket is flagged iff its encryption is disabled or public access is
\* detected (public ACL grant or public policy); a function is flagged iff its
\* runtime is not in the supported list.
C9_RiskFlagIsPolicy ==
    Built =>
      /\ \A i \in 1..Len(s3_buckets) :
           LET b == s3_buckets[i]
           IN  EntryFlagged(Get(tree, "S3 Buckets").items[i])
                 <=> (~b.Encrypted \/ b.PublicAcl \/ b.PolicyHasHttp)
      /\ \A v \in KnownVpcIds :
           LET recs == OwnedBy("lambda", v)
           IN  \A i \in 1..Len(recs) :
                 EntryFlagged(Get(Get(tree, v), "Lambda Functions").items[i])
                   <=> recs[i].Runtime \notin SupportedRuntimes

\* C10: after build and clean_tree every known VPC id is still a first-level
\* key and its node still holds its URL; of a VPC's node pruning removes only
\* the empty Tags map and the empty buckets, and no non-empty root-level entry
\* is removed or changed.
C10_VpcNodesSurvivePruning ==
    Pruned =>
      /\ \A i \in 1..Len(vpcs) :
           LET id == vpcs[i].VpcId
           IN  /\ Has(tree, id)
               /\ Has(Get(tree, id), "URL")
               /\ Get(tree, id).kv
                    = SelectSeq(Get(built, id).kv,
                                LAMBDA e : ~IsEmptyContainer(e.n))
      /\ \A j \in 1..Len(built.kv) :
           LET e == built.kv[j]
           IN  ~IsEmptyContainer(e.n) =>
                  /\ Has(tree, e.k)
                  /\ IsList(e.n) => Get(tree, e.k) = e.n

\* C10's case: a VPC with no tags that owns nothing is left with its URL only
C10_Witness ==
    /\ Pruned
    /\ \E i \in 1..Len(vpcs) :
          /\ vpcs[i].Tags = <<>>
          /\ \A kind \in VpcKinds : OwnedBy(kind, vpcs[i].VpcId) = <<>>
          /\ Has(tree, vpcs[i].VpcId)
          /\ Len(Get(tree, vpcs[i].VpcId).kv) = 1
          /\ Len(Get(built, vpcs[i].VpcId).kv) > 1

====
